---- MODULE Spec2Model ----
(***************************************************************************)
(* Incremental chart-data loading of the trading frontend:                 *)
(* App (trading-frontend/src/App.tsx) fetches bars and keeps them in a     *)
(* reducer state; CustomChart (components/CustomChart.tsx) hands them to   *)
(* the candlestick series of the chart.                                    *)
(*                                                                         *)
(* Dates ("YYYY-MM-DD", UTC) are day numbers since the epoch.  A raw       *)
(* timestamp t (epoch milliseconds) is the pair (day, ms) with             *)
(* t = day * 86400000 + ms, so that every number stays below 2^31.         *)
(***************************************************************************)
EXTENDS Integers, Sequences, FiniteSets, TLC

\* ------------------------------------------------------------- bounds
\* fetches issued over one run
MaxFetches == 3

\* bars in one response, where the formatting of a response is checked on its own
MaxResults == 2
\* events the dashboard's socket holds or has in flight
MaxQueued == 3

\* ---------------------------------------------------------- constants
BAR_LOOKBACK == 100
defaultTicker == "QQQ"
defaultTimeframe == "1d"
\* day number of new Date() when the page is open
Today == 20000

SecondsPerDay == 24 * 60 * 60
defaultEndDate == Today
defaultStartDate == Today - BAR_LOOKBACK

\* ticker symbols the user works with: those of the watchlist, and those typed into
\* the ticker input
Tickers == {"QQQ", "SPY"}
TickerInputs == Tickers
\* options of the timeframe select the user picks from
Timeframes == {"1d", "1wk"}

NoError == "null"
Undefined == "undefined"
SET_INITIAL_DATA == "SET_INITIAL_DATA"
ADD_INCREMENTAL_DATA == "ADD_INCREMENTAL_DATA"

NoReq ==
    [id |-> 0, type |-> "none", ticker |-> "", timeframe |-> "",
     startDate |-> 0, endDate |-> 0, shown |-> ""]

VARIABLES
    mounted,            \* the mount effect of App has run
    ticker,             \* App: useState(defaultTicker)
    timeframe,          \* App: useState(defaultTimeframe)
    loading,            \* App: useState(false), set by the chart's requestMore prop
    state,              \* App: useReducer state
    error,              \* App: useState<string | null>(null)
    isLoadingMore,      \* App: useState(false)
    inflight,           \* fetches issued and not yet answered
    nFetch,             \* number of fetches issued so far
    series,             \* CustomChart: data of candlestickSeriesRef.current
    internalTicker,     \* CustomChart: useState('')
    internalDataCount,  \* CustomChart: useState(0)
    updateError,        \* CustomChart: useState<string | null>(null)
    loadingRef,         \* CustomChart: useRef(false)
    visualRangeLoading, \* CustomChart: useState(false)
    crashed,            \* an effect threw outside any try: the tree is unmounted
                        \* (setData on initial data that is not ascending)
    outcome,            \* how the fetch that settled last ended
    conversion,         \* fetchData: the response being formatted
    watchlistPage,      \* Watchlist: its state and the storage it saves to
    dashboard,          \* dashboard.html: the page, its socket and the server's room
    customPlot          \* addCustomPlot: the caller's list, the arguments, the result

loaderVars ==
    <<mounted, ticker, timeframe, loading, state, error, isLoadingMore, inflight,
      nFetch, series, internalTicker, internalDataCount, updateError, loadingRef,
      visualRangeLoading, crashed, outcome>>

\* what a step of the chart page leaves alone
besideLoader == <<conversion, watchlistPage, dashboard, customPlot>>

vars == <<loaderVars, conversion, watchlistPage, dashboard, customPlot>>

appVars == <<ticker, timeframe, loading, state, error, isLoadingMore>>
chartVars == <<series, internalTicker, internalDataCount, updateError>>
guardVars == <<loadingRef, visualRangeLoading>>

\* fetchData: parsedData.results of one response, and the bars made of it
parsedResults == conversion.parsedResults
formattedData == conversion.formattedData

\* Watchlist: useState<string[]>([]), useState(''), useState(false), useState(false),
\* and the value under the key 'trading-watchlist'
watchlist == watchlistPage.watchlist
newTicker == watchlistPage.newTicker
isAddingTicker == watchlistPage.isAddingTicker
isLoaded == watchlistPage.isLoaded
localStorage == watchlistPage.localStorage
\* what getItem answered in the load effect of this page load (savedWatchlist)
readOnMount == watchlistPage.readOnMount

\* dashboard: socket.connected; textContent and className of #status; the events
\* emitted while the socket is down; the events on their way to the server; whether
\* the server has the client's session in the room 'frontend'; textContent of
\* #totalTrades and of #dataPoints
socketConnected == dashboard.socketConnected
statusText == dashboard.statusText
statusClass == dashboard.statusClass
sendBuffer == dashboard.sendBuffer
outbox == dashboard.outbox
inFrontendRoom == dashboard.inFrontendRoom
totalTrades == dashboard.totalTrades
dataPoints == dashboard.dataPoints

\* addCustomPlot: the array the caller passes (indicators), the array it gets back
\* (newIndicators), and whether the call has been made
indicators == customPlot.indicators
newIndicators == customPlot.newIndicators
called == customPlot.called

\* ------------------------------------------------------------ helpers
Times(bars) == [i \in 1..Len(bars) |-> bars[i].time]

StrictlyAscending(ts) == \A i \in 1..(Len(ts) - 1) : ts[i] < ts[i + 1]

\* FormatBar, as it would be if the time were rounded to the nearest second
FormatBarRounds(item) ==
    [time |-> item.day * SecondsPerDay + ((item.ms + 500) \div 1000),
     open |-> item.o, high |-> item.h, low |-> item.l, close |-> item.c,
     volume |-> item.v,
     tk |-> item.tk, tf |-> item.tf]

\* fetchData: one element of parsedData.results.map(...).
\* new Date(item.t / 1000).getTime() truncates t / 1000 to an integer.
FormatBar(item) ==
    [time |-> item.day * SecondsPerDay + (item.ms \div 1000),
     open |-> item.o, high |-> item.h, low |-> item.l, close |-> item.c,
     volume |-> item.v,
     tk |-> item.tk, tf |-> item.tf]

FormattedData(results) == [i \in 1..Len(results) |-> FormatBar(results[i])]

\* ------------------------------------------------------------ reducer
Action(type, data, tk, startDate, endDate) ==
    [type |-> type,
     payload |-> [data |-> data, ticker |-> tk,
                  startDate |-> startDate, endDate |-> endDate]]

\* a || b on date strings: a missing date (undefined or '', here NoReq's) is falsy
OrElse(a, b) == IF a # NoReq.startDate THEN a ELSE b

\* reducer, as it would be if an empty load-more batch left the marker alone
reducerKeepsMarkerOnEmpty(st, action) ==
    CASE action.type = SET_INITIAL_DATA ->
            [st EXCEPT !.initialData = action.payload.data,
                       !.incrementalData = <<>>,
                       !.currentTicker = IF action.payload.ticker # ""
                                         THEN action.payload.ticker ELSE "",
                       !.startDate = OrElse(action.payload.startDate, st.startDate),
                       !.endDate = OrElse(action.payload.endDate, st.endDate)]
      [] action.type = ADD_INCREMENTAL_DATA ->
            [st EXCEPT !.incrementalData = action.payload.data,
                       !.startDate = IF action.payload.data = <<>> THEN st.startDate
                                     ELSE OrElse(action.payload.startDate, st.startDate)]
      [] OTHER -> st

\* reducer, as it would be if SET_INITIAL_DATA kept the incremental data
reducerKeepsIncrementalData(st, action) ==
    CASE action.type = SET_INITIAL_DATA ->
            [st EXCEPT !.initialData = action.payload.data,
                       !.currentTicker = IF action.payload.ticker # ""
                                         THEN action.payload.ticker ELSE "",
                       !.startDate = OrElse(action.payload.startDate, st.startDate),
                       !.endDate = OrElse(action.payload.endDate, st.endDate)]
      [] action.type = ADD_INCREMENTAL_DATA ->
            [st EXCEPT !.incrementalData = action.payload.data,
                       !.startDate = OrElse(action.payload.startDate, st.startDate)]
      [] OTHER -> st

\* reducer, as it would be if ADD_INCREMENTAL_DATA took the end date of its payload too
reducerAddSetsEndDate(st, action) ==
    CASE action.type = SET_INITIAL_DATA ->
            [st EXCEPT !.initialData = action.payload.data,
                       !.incrementalData = <<>>,
                       !.currentTicker = IF action.payload.ticker # ""
                                         THEN action.payload.ticker ELSE "",
                       !.startDate = OrElse(action.payload.startDate, st.startDate),
                       !.endDate = OrElse(action.payload.endDate, st.endDate)]
      [] action.type = ADD_INCREMENTAL_DATA ->
            [st EXCEPT !.incrementalData = action.payload.data,
                       !.startDate = OrElse(action.payload.startDate, st.startDate),
                       !.endDate = OrElse(action.payload.endDate, st.endDate)]
      [] OTHER -> st

reducer(st, action) ==
    CASE action.type = SET_INITIAL_DATA ->
            [st EXCEPT !.initialData = action.payload.data,
                       !.incrementalData = <<>>,
                       !.currentTicker = IF action.payload.ticker # ""
                                         THEN action.payload.ticker ELSE "",
                       !.startDate = OrElse(action.payload.startDate, st.startDate),
                       !.endDate = OrElse(action.payload.endDate, st.endDate)]
      [] action.type = ADD_INCREMENTAL_DATA ->
            [st EXCEPT !.incrementalData = action.payload.data,
                       !.startDate = OrElse(action.payload.startDate, st.startDate)]
      [] OTHER -> st

\* ------------------------------------------------------------- chart
\* setData of the chart library: a build with assertions (asserts) rejects data that
\* is not strictly ascending in time, a production build accepts it.
SetDataThrows(asserts, data) == asserts /\ ~StrictlyAscending(Times(data))

\* the currentTicker prop, with its default
CurrentTickerProp(st) ==
    IF st.currentTicker = Undefined THEN "UNKNOWN" ELSE st.currentTicker

\* what the chart component holds, as one record
Chart ==
    [series |-> series, internalTicker |-> internalTicker,
     internalDataCount |-> internalDataCount, updateError |-> updateError,
     crashed |-> crashed]

\* "Handle initial data load (when ticker changes or first load)".
\* setData is called outside any try: a throw unmounts the tree.
InitialDataEffect(c, st, asserts) ==
    LET initialData == st.initialData
        currentTicker == CurrentTickerProp(st)
    IN  IF c.crashed \/ Len(initialData) = 0 THEN c
        ELSE IF currentTicker # c.internalTicker THEN
            IF SetDataThrows(asserts, initialData)
            THEN [c EXCEPT !.crashed = TRUE]
            ELSE [c EXCEPT !.internalTicker = currentTicker,
                           !.updateError = NoError,
                           !.series = initialData,
                           !.internalDataCount = Len(initialData)]
        ELSE IF Len(initialData) > 0 /\ c.internalDataCount = 0 THEN
            IF SetDataThrows(asserts, initialData)
            THEN [c EXCEPT !.crashed = TRUE]
            ELSE [c EXCEPT !.series = initialData,
                           !.internalDataCount = Len(initialData)]
        ELSE c

\* IncrementalDataEffect, as it would be if the batch were put after the bars on display
IncrementalDataEffectAppends(c, st, renderTicker, asserts) ==
    LET incrementalData == st.incrementalData
        currentTicker == CurrentTickerProp(st)
    IN  IF c.crashed \/ Len(incrementalData) = 0 \/ currentTicker # renderTicker THEN c
        ELSE LET data == c.series
                 merged == data \o incrementalData
             IN  IF SetDataThrows(asserts, merged)
                 THEN [c EXCEPT !.updateError = "Failed to update chart data"]
                 ELSE [c EXCEPT !.series = merged,
                                !.internalDataCount = @ + Len(incrementalData)]

\* IncrementalDataEffect, as it would be if the catch only logged the error
IncrementalDataEffectOnlyLogs(c, st, renderTicker, asserts) ==
    LET incrementalData == st.incrementalData
        currentTicker == CurrentTickerProp(st)
    IN  IF c.crashed \/ Len(incrementalData) = 0 \/ currentTicker # renderTicker THEN c
        ELSE LET data == c.series
                 merged == incrementalData \o data
             IN  IF SetDataThrows(asserts, merged)
                 THEN c
                 ELSE [c EXCEPT !.series = merged,
                                !.internalDataCount = @ + Len(incrementalData)]

\* "Handle incremental data updates".  renderTicker is internalTicker as the render
\* that scheduled the effect saw it; the series data is read when the effect runs.
IncrementalDataEffect(c, st, renderTicker, asserts) ==
    LET incrementalData == st.incrementalData
        currentTicker == CurrentTickerProp(st)
    IN  IF c.crashed \/ Len(incrementalData) = 0 \/ currentTicker # renderTicker THEN c
        ELSE LET data == c.series
                 merged == incrementalData \o data
             IN  IF SetDataThrows(asserts, merged)
                 THEN [c EXCEPT !.updateError = "Failed to update chart data"]
                 ELSE [c EXCEPT !.series = merged,
                                !.internalDataCount = @ + Len(incrementalData)]

\* The commit that follows a dispatch: the effects whose dependencies changed run in
\* the order the component declares them, and the initial-data effect runs once more
\* when they changed internalTicker or internalDataCount.
Commit(c, st, type, asserts) ==
    LET c1 == IF type = SET_INITIAL_DATA \/ Len(st.initialData) = 0
              THEN InitialDataEffect(c, st, asserts) ELSE c
        c2 == IncrementalDataEffect(c1, st, c.internalTicker, asserts)
    IN  IF c2.internalTicker # c.internalTicker
           \/ c2.internalDataCount # c.internalDataCount
        THEN InitialDataEffect(c2, st, asserts) ELSE c2

SetChart(c) ==
    /\ series' = c.series
    /\ internalTicker' = c.internalTicker
    /\ internalDataCount' = c.internalDataCount
    /\ updateError' = c.updateError
    /\ crashed' = c.crashed

\* ------------------------------------------------------- data source
\* GET /stock/{ticker}/{startDate}/{endDate}?timeframe={tf} answers with bars of that
\* ticker and timeframe inside the range, oldest first.  The bars on offer are those
\* of the first and of the last day of the range, stamped at 04:00 UTC.
BarOffsetMs == 4 * 60 * 60 * 1000

Item(r, d) ==
    [day |-> d, ms |-> BarOffsetMs, o |-> 2, h |-> 3, l |-> 1, c |-> 2, v |-> 100,
     tk |-> r.ticker, tf |-> r.timeframe]

\* no bar, the last day's bar, or both
Results(r) ==
    {<<>>, <<Item(r, r.endDate)>>,
     <<Item(r, r.startDate), Item(r, r.endDate)>>}

\* ------------------------------------------------------------- fetch
\* fetchData up to its first await: the request leaves.  shown remembers the ticker
\* on display when it left (the program keeps no such field).
Request(type, tk, tf, startDate, endDate) ==
    [id |-> nFetch + 1, type |-> type, ticker |-> tk, timeframe |-> tf,
     startDate |-> startDate, endDate |-> endDate, shown |-> state.currentTicker]

Issue(r) ==
    /\ nFetch < MaxFetches
    /\ inflight' = inflight \cup {r}
    /\ nFetch' = nFetch + 1

\* requestMore's finally, once the awaited fetchData has settled
RequestMoreFinally(r) ==
    isLoadingMore' = IF r.type = ADD_INCREMENTAL_DATA THEN FALSE ELSE isLoadingMore

\* the array the commit that follows this answer hands to setData, if it calls it
SetDataArgument(r, results) ==
    IF r.type = ADD_INCREMENTAL_DATA
    THEN FormattedData(results) \o series
    ELSE FormattedData(results)

\* fetchData: the response carries data; format it and dispatch.  The chart build
\* with assertions is told apart only where it can behave differently: where the
\* array for setData is not ascending.
FetchSucceeds(r, results, asserts) ==
    /\ ~crashed
    /\ r \in inflight
    /\ asserts => SetDataThrows(asserts, SetDataArgument(r, results))
    /\ inflight' = inflight \ {r}
    /\ LET action == Action(r.type, FormattedData(results), r.ticker,
                            r.startDate, r.endDate)
           st == reducer(state, action)
       IN  /\ state' = st
           /\ SetChart(Commit(Chart, st, action.type, asserts))
    /\ RequestMoreFinally(r)
    /\ outcome' = "ok"
    /\ UNCHANGED <<mounted, ticker, timeframe, loading, error, nFetch, guardVars>>
    /\ UNCHANGED besideLoader

\* fetchData: the response carries an error payload; setError, throw, catch and log
FetchUpstreamError(r) ==
    /\ ~crashed
    /\ r \in inflight
    /\ inflight' = inflight \ {r}
    /\ error' = "upstream error"
    /\ RequestMoreFinally(r)
    /\ outcome' = "upstreamError"
    /\ UNCHANGED <<mounted, ticker, timeframe, loading, state, nFetch, chartVars,
                   crashed, guardVars>>
    /\ UNCHANGED besideLoader

\* FetchNetworkError, as it would be if the catch dispatched an empty result
FetchNetworkErrorDispatchesEmpty(r) ==
    /\ ~crashed
    /\ r \in inflight
    /\ inflight' = inflight \ {r}
    /\ LET action == Action(r.type, <<>>, r.ticker, r.startDate, r.endDate)
           st == reducer(state, action)
       IN  /\ state' = st
           /\ SetChart(Commit(Chart, st, action.type, FALSE))
    /\ RequestMoreFinally(r)
    /\ outcome' = "networkError"
    /\ UNCHANGED <<mounted, ticker, timeframe, loading, error, nFetch, guardVars>>
    /\ UNCHANGED besideLoader

\* FetchNetworkError, as it would be if the catch sent the request again
FetchNetworkErrorRetries(r) ==
    /\ ~crashed
    /\ r \in inflight
    /\ nFetch < MaxFetches
    /\ inflight' = (inflight \ {r}) \cup {[r EXCEPT !.id = nFetch + 1]}
    /\ nFetch' = nFetch + 1
    /\ RequestMoreFinally(r)
    /\ outcome' = "networkError"
    /\ UNCHANGED <<mounted, ticker, timeframe, loading, state, error, chartVars,
                   crashed, guardVars>>
    /\ UNCHANGED besideLoader

\* fetchData: fetch or response.json() rejects, or results is missing; catch and log
FetchNetworkError(r) ==
    /\ ~crashed
    /\ r \in inflight
    /\ inflight' = inflight \ {r}
    /\ RequestMoreFinally(r)
    /\ outcome' = "networkError"
    /\ UNCHANGED <<mounted, ticker, timeframe, loading, state, error, nFetch,
                   chartVars, crashed, guardVars>>
    /\ UNCHANGED besideLoader

\* --------------------------------------------------------------- App
\* "Fetch initial data on mount"
Mount ==
    /\ ~mounted
    /\ mounted' = TRUE
    /\ IF ticker # ""
       THEN LET r == Request(SET_INITIAL_DATA, ticker, timeframe,
                             defaultStartDate, defaultEndDate)
            IN  Issue(r)
       ELSE UNCHANGED <<inflight, nFetch>>
    /\ UNCHANGED <<appVars, chartVars, crashed, guardVars, outcome>>
    /\ UNCHANGED besideLoader

\* the timeframe select: onChange={(e) => setTimeframe(e.target.value)}
SelectTimeframe(tf) ==
    /\ mounted /\ ~crashed
    /\ tf # timeframe
    /\ timeframe' = tf
    /\ UNCHANGED <<mounted, ticker, loading, state, error, isLoadingMore, inflight,
                   nFetch, chartVars, crashed, guardVars, outcome>>
    /\ UNCHANGED besideLoader

\* the ticker input: onBlur={(e) => setTicker(e.target.value)}
TickerInputBlur(v) ==
    /\ mounted /\ ~crashed
    /\ v # ticker
    /\ ticker' = v
    /\ UNCHANGED <<mounted, timeframe, loading, state, error, isLoadingMore, inflight,
                   nFetch, chartVars, crashed, guardVars, outcome>>
    /\ UNCHANGED besideLoader

handleSearch ==
    /\ mounted /\ ~crashed
    /\ IF ticker # ""
       THEN LET r == Request(SET_INITIAL_DATA, ticker, timeframe,
                             defaultStartDate, defaultEndDate)
            IN  Issue(r)
       ELSE \* alert('Please enter a ticker symbol.')
            UNCHANGED <<inflight, nFetch>>
    /\ UNCHANGED <<mounted, appVars, chartVars, crashed, guardVars, outcome>>
    /\ UNCHANGED besideLoader

handleWatchlistTickerSelect(selectedTicker) ==
    /\ mounted /\ ~crashed
    /\ ticker' = selectedTicker
    /\ LET r == Request(SET_INITIAL_DATA, selectedTicker, timeframe,
                        defaultStartDate, defaultEndDate)
       IN  Issue(r)
    /\ UNCHANGED <<mounted, timeframe, loading, state, error, isLoadingMore,
                   chartVars, crashed, guardVars, outcome>>
    /\ UNCHANGED besideLoader

\* requestMore: the range of BAR_LOOKBACK days that ends the day before state.startDate
MoreRange(currentStartDate) ==
    [startDate |-> currentStartDate - BAR_LOOKBACK, endDate |-> currentStartDate - 1]

\* requestMore, up to the await: the guard, then the fetch for the earlier range
requestMore ==
    IF isLoadingMore
    THEN UNCHANGED <<inflight, nFetch>>
    ELSE LET range == MoreRange(state.startDate)
         IN  Issue(Request(ADD_INCREMENTAL_DATA, ticker, timeframe,
                           range.startDate, range.endDate))

\* useEffect on [loading], run by the render that follows setLoading(true):
\* requestMore(), then setLoading(false)
LoadingEffect ==
    /\ requestMore
    /\ loading' = FALSE

\* ------------------------------------------------------- CustomChart
\* left edges (logical index) the visible range can report; the range is null while
\* the series is empty
VisibleFrom == {0, 5, 40}

\* the requestMore prop is () => setLoading(true), which makes App's loading effect run
handleVisibleLogicalRangeChange(from, to) ==
    /\ mounted /\ ~crashed
    /\ series # <<>>
    /\ from # 0 /\ to # 0 /\ from < 30 /\ ~loadingRef
    /\ loadingRef' = TRUE
    /\ visualRangeLoading' = TRUE
    /\ LoadingEffect
    /\ UNCHANGED <<mounted, ticker, timeframe, state, error, isLoadingMore,
                   chartVars, crashed, outcome>>
    /\ UNCHANGED besideLoader

\* ResetLoadingTimeout, as it would be if the guard were released by the load-more
\* fetch settling and not by a timer
ResetLoadingWhenSettled ==
    /\ mounted /\ ~crashed
    /\ loadingRef
    /\ \A r \in inflight : r.type # ADD_INCREMENTAL_DATA
    /\ loadingRef' = FALSE
    /\ visualRangeLoading' = FALSE
    /\ UNCHANGED <<mounted, appVars, inflight, nFetch, chartVars, crashed, outcome>>
    /\ UNCHANGED besideLoader

\* setTimeout(() => {...}, 1000), armed as soon as requestMore() has returned
ResetLoadingTimeout ==
    /\ mounted /\ ~crashed
    /\ loadingRef
    /\ loadingRef' = FALSE
    /\ visualRangeLoading' = FALSE
    /\ UNCHANGED <<mounted, appVars, inflight, nFetch, chartVars, crashed, outcome>>
    /\ UNCHANGED besideLoader

\* the update error notification: onClick={() => setUpdateError(null)}
DismissUpdateError ==
    /\ mounted /\ ~crashed
    /\ updateError # NoError
    /\ updateError' = NoError
    /\ UNCHANGED <<mounted, appVars, inflight, nFetch, series, internalTicker,
                   internalDataCount, crashed, guardVars, outcome>>
    /\ UNCHANGED besideLoader

\* ----------------------------------------- fetchData: formatting
MsPerDay == SecondsPerDay * 1000

\* the t of a bar, on a whole second and off it, on the first day of the epoch and today
ItemDays == {0, Today}
ItemMs == {0, 999, 1000, 1999, MsPerDay - 1}
Candles ==
    {[o |-> 2, h |-> 3, l |-> 1, c |-> 2, v |-> 100],
     [o |-> 5, h |-> 5, l |-> 5, c |-> 5, v |-> 0]}

PolygonItems ==
    {[day |-> d, ms |-> m, o |-> k.o, h |-> k.h, l |-> k.l, c |-> k.c, v |-> k.v,
      tk |-> defaultTicker, tf |-> defaultTimeframe] :
        d \in ItemDays, m \in ItemMs, k \in Candles}

SeqsUpTo(S, n) == UNION {[1..k -> S] : k \in 0..n}

\* no response is being formatted
NoConversion == conversion = [parsedResults |-> <<>>, formattedData |-> <<>>]

\* a response has been parsed
InitConversion ==
    \E results \in SeqsUpTo(PolygonItems, MaxResults) :
        conversion = [parsedResults |-> results, formattedData |-> <<>>]

\* const formattedData = parsedData.results.map(...)
FormatResults ==
    /\ conversion' = [conversion EXCEPT !.formattedData = FormattedData(parsedResults)]
    /\ UNCHANGED <<loaderVars, watchlistPage, dashboard, customPlot>>

\* --------------------------------------------------------- Watchlist
\* A string is the sequence of its characters.
\* what the user types into the add form
TypedTickers ==
    {<<>>, <<" ">>, <<"f">>, <<"F">>, <<" ", "f", " ">>, <<"t">>, <<"T", " ">>,
     <<"f", "t">>}

IsWhiteSpace(ch) == ch \in {" ", "\t", "\n"}

RECURSIVE trimStart(_)
trimStart(str) ==
    IF str # <<>> /\ IsWhiteSpace(Head(str)) THEN trimStart(Tail(str)) ELSE str

RECURSIVE trimEnd(_)
trimEnd(str) ==
    IF str # <<>> /\ IsWhiteSpace(str[Len(str)])
    THEN trimEnd(SubSeq(str, 1, Len(str) - 1)) ELSE str

trim(str) == trimEnd(trimStart(str))

UpperCaseOf(ch) ==
    CASE ch = "f" -> "F"
      [] ch = "t" -> "T"
      [] OTHER -> ch

toUpperCase(str) == [i \in 1..Len(str) |-> UpperCaseOf(str[i])]

includes(list, item) == \E i \in 1..Len(list) : list[i] = item

\* JSON text is the sequence of its tokens.
Token(kind, str) == [kind |-> kind, str |-> str]

RECURSIVE JoinedItems(_)
JoinedItems(list) ==
    IF list = <<>> THEN <<>>
    ELSE IF Len(list) = 1 THEN <<Token("string", list[1])>>
    ELSE <<Token("string", Head(list)), Token(",", <<>>)>> \o JoinedItems(Tail(list))

\* JSON.stringify of an array of strings
JSONstringify(list) == <<Token("[", <<>>)>> \o JoinedItems(list) \o <<Token("]", <<>>)>>

\* JSON.parse: an array of strings, some other JSON value (a string is parsed to
\* itself), or a SyntaxError
JSONparse(text) ==
    LET n == Len(text)
        inner == SubSeq(text, 2, n - 1)
        isArray ==
            /\ n >= 2
            /\ text[1].kind = "[" /\ text[n].kind = "]"
            /\ \/ inner = <<>>
               \/ /\ Len(inner) % 2 = 1
                  /\ \A i \in 1..Len(inner) :
                        inner[i].kind = IF i % 2 = 1 THEN "string" ELSE ","
        isOther ==
            \/ n = 1 /\ text[1].kind = "string"
            \/ n = 2 /\ text[1].kind = "{" /\ text[2].kind = "}"
    IN  IF isArray
        THEN [throws |-> FALSE, isArray |-> TRUE,
              value |-> [i \in 1..((Len(inner) + 1) \div 2) |-> inner[2 * i - 1].str]]
        ELSE [throws |-> ~isOther, isArray |-> FALSE,
              value |-> IF n = 1 /\ text[1].kind = "string" THEN text[1].str ELSE <<>>]

\* localStorage.getItem answers null when the key is absent
NoItem == [present |-> FALSE, text |-> <<>>]
StoredItem(text) == [present |-> TRUE, text |-> text]

\* what the key may hold when the page opens: nothing, the empty string, an array this
\* component saved, another JSON value (an object, a string), text cut short
StoredAtOpen ==
    {NoItem,
     StoredItem(<<>>),
     StoredItem(JSONstringify(<<>>)),
     StoredItem(JSONstringify(<<<<"F">>, <<"T">>>>)),
     StoredItem(<<Token("{", <<>>), Token("}", <<>>)>>),
     StoredItem(<<Token("string", <<"F">>)>>),
     StoredItem(<<Token("[", <<>>), Token("string", <<"F">>)>>)}

\* LoadEffect, as it would be without the Array.isArray test
LoadEffectWithoutArrayTest(list, stored) ==
    LET savedWatchlist == stored.text
        parsedWatchlist == JSONparse(savedWatchlist)
    IN  IF stored.present /\ savedWatchlist # <<>> /\ ~parsedWatchlist.throws
        THEN parsedWatchlist.value
        ELSE list

\* "Load watchlist from localStorage on component mount": the list setWatchlist is
\* given, or the list as it is when setWatchlist is not called
LoadEffect(list, stored) ==
    LET savedWatchlist == stored.text
        parsedWatchlist == JSONparse(savedWatchlist)
    IN  IF stored.present /\ savedWatchlist # <<>>
           /\ ~parsedWatchlist.throws /\ parsedWatchlist.isArray
        THEN parsedWatchlist.value
        ELSE list

\* SaveEffect, as it would be without the isLoaded test
SaveEffectUnguarded(loaded, list, stored) == StoredItem(JSONstringify(list))

\* SaveEffect, as it would be if an empty list were not written
SaveEffectSkipsEmpty(loaded, list, stored) ==
    IF loaded /\ list # <<>> THEN StoredItem(JSONstringify(list)) ELSE stored

\* "Save watchlist to localStorage whenever it changes (but only after initial load)":
\* the value under the key after the effect has run in a render that saw isLoaded = loaded
SaveEffect(loaded, list, stored) ==
    IF loaded THEN StoredItem(JSONstringify(list)) ELSE stored

\* the first render, before its effects, with stored under the key
FirstRender(stored) ==
    [watchlist |-> <<>>, newTicker |-> <<>>, isAddingTicker |-> FALSE,
     isLoaded |-> FALSE, localStorage |-> stored, readOnMount |-> NoItem]

\* the component is not on the page
NoWatchlist == watchlistPage = FirstRender(NoItem)

InitWatchlist == \E stored \in StoredAtOpen : watchlistPage = FirstRender(stored)

\* The effects of the first render and of the render they cause.  Under StrictMode a
\* development build runs the effects of the first render twice; the save effect of
\* that render sees isLoaded = false both times.
WatchlistMount(strictMode) ==
    /\ ~isLoaded
    /\ LET once == LoadEffect(watchlist, localStorage)
           stored == SaveEffect(isLoaded, watchlist, localStorage)
           twice == IF strictMode THEN LoadEffect(once, stored) ELSE once
       IN  watchlistPage' =
               [watchlistPage EXCEPT !.watchlist = twice,
                                     !.isLoaded = TRUE,
                                     !.readOnMount = IF strictMode THEN stored
                                                     ELSE localStorage,
                                     !.localStorage = SaveEffect(TRUE, twice, stored)]
    /\ UNCHANGED <<loaderVars, conversion, dashboard, customPlot>>

\* a page refresh: the component state is lost, the storage is kept
Refresh ==
    /\ isLoaded
    /\ watchlistPage' = FirstRender(localStorage)
    /\ UNCHANGED <<loaderVars, conversion, dashboard, customPlot>>

\* the "+" button: onClick={() => setIsAddingTicker(true)}, disabled={isAddingTicker}
ShowAddForm ==
    /\ isLoaded
    /\ ~isAddingTicker
    /\ watchlistPage' = [watchlistPage EXCEPT !.isAddingTicker = TRUE]
    /\ UNCHANGED <<loaderVars, conversion, dashboard, customPlot>>

\* the ticker input: onChange={(e) => setNewTicker(e.target.value)}
ChangeNewTicker(value) ==
    /\ isLoaded
    /\ isAddingTicker
    /\ value # newTicker
    /\ watchlistPage' = [watchlistPage EXCEPT !.newTicker = value]
    /\ UNCHANGED <<loaderVars, conversion, dashboard, customPlot>>

\* the Cancel button
CancelAdd ==
    /\ isLoaded
    /\ isAddingTicker
    /\ watchlistPage' = [watchlistPage EXCEPT !.isAddingTicker = FALSE,
                                              !.newTicker = <<>>]
    /\ UNCHANGED <<loaderVars, conversion, dashboard, customPlot>>

\* handleAddTicker, as it would be without the includes test
handleAddTickerAllowsDuplicates ==
    /\ isLoaded
    /\ isAddingTicker
    /\ LET tickerToAdd == toUpperCase(trim(newTicker))
           added == Append(watchlist, tickerToAdd)
       IN  watchlistPage' =
               IF tickerToAdd # <<>>
               THEN [watchlistPage EXCEPT
                        !.watchlist = added,
                        !.newTicker = <<>>,
                        !.isAddingTicker = FALSE,
                        !.localStorage = SaveEffect(isLoaded, added, localStorage)]
               ELSE watchlistPage
    /\ UNCHANGED <<loaderVars, conversion, dashboard, customPlot>>

\* the add form's onSubmit, and the save effect of the render that follows
handleAddTicker ==
    /\ isLoaded
    /\ isAddingTicker
    /\ LET tickerToAdd == toUpperCase(trim(newTicker))
           added == Append(watchlist, tickerToAdd)
       IN  watchlistPage' =
               IF tickerToAdd # <<>> /\ ~includes(watchlist, tickerToAdd)
               THEN [watchlistPage EXCEPT
                        !.watchlist = added,
                        !.newTicker = <<>>,
                        !.isAddingTicker = FALSE,
                        !.localStorage = SaveEffect(isLoaded, added, localStorage)]
               ELSE watchlistPage
    /\ UNCHANGED <<loaderVars, conversion, dashboard, customPlot>>

\* the remove button of one item, and the save effect of the render that follows
handleRemoveTicker(tickerToRemove) ==
    /\ isLoaded
    /\ includes(watchlist, tickerToRemove)
    /\ LET kept == SelectSeq(watchlist, LAMBDA entry : entry # tickerToRemove)
       IN  watchlistPage' =
               [watchlistPage EXCEPT
                   !.watchlist = kept,
                   !.localStorage = SaveEffect(isLoaded, kept, localStorage)]
    /\ UNCHANGED <<loaderVars, conversion, dashboard, customPlot>>

\* the Clear Watchlist button, shown while the list is not empty; confirmed is the
\* answer to window.confirm
handleClearWatchlist(confirmed) ==
    /\ isLoaded
    /\ Len(watchlist) > 0
    /\ watchlistPage' =
           IF confirmed
           THEN [watchlistPage EXCEPT
                    !.watchlist = <<>>,
                    !.localStorage = SaveEffect(isLoaded, <<>>, localStorage)]
           ELSE watchlistPage
    /\ UNCHANGED <<loaderVars, conversion, dashboard, customPlot>>

\* --------------------------------------------------------- dashboard
\* trades_count and market_data_count of the trading_update events the server sends
TradesCounts == {0, 1, 2}
MarketDataCounts == {0, 1, 2}

\* the page as served, before the socket connects
InitDashboard ==
    dashboard =
        [socketConnected |-> FALSE,
         statusText |-> "Disconnected",
         statusClass |-> "status disconnected",
         sendBuffer |-> <<>>,
         outbox |-> <<>>,
         inFrontendRoom |-> FALSE,
         totalTrades |-> 0,
         dataPoints |-> 0]

\* the page is not open
NoDashboard == InitDashboard

\* socket.emit: the event leaves when the socket is connected and waits in the
\* socket's send buffer when it is not
Emit(connected, buffer, flight, event) ==
    IF connected
    THEN [sendBuffer |-> buffer, outbox |-> Append(flight, event)]
    ELSE [sendBuffer |-> Append(buffer, event), outbox |-> flight]

\* OnConnect, as it would be if join_frontend were not sent from the connect handler
OnConnectWithoutJoin ==
    /\ ~socketConnected
    /\ dashboard' = [dashboard EXCEPT !.socketConnected = TRUE,
                                      !.statusText = "Connected",
                                      !.statusClass = "status connected",
                                      !.sendBuffer = <<>>,
                                      !.outbox = sendBuffer]
    /\ UNCHANGED <<loaderVars, conversion, watchlistPage, customPlot>>

\* The socket connects, for the first time or again: it sends what its buffer holds,
\* then socket.on('connect', ...) runs.
OnConnect ==
    /\ ~socketConnected
    /\ LET sent == Emit(TRUE, <<>>, sendBuffer, "join_frontend")
       IN  dashboard' = [dashboard EXCEPT !.socketConnected = TRUE,
                                          !.statusText = "Connected",
                                          !.statusClass = "status connected",
                                          !.sendBuffer = sent.sendBuffer,
                                          !.outbox = sent.outbox]
    /\ UNCHANGED <<loaderVars, conversion, watchlistPage, customPlot>>

\* The connection is lost: socket.on('disconnect', ...) runs.  What was on its way
\* is lost, and the server takes the session out of its rooms.
OnDisconnect ==
    /\ socketConnected
    /\ dashboard' = [dashboard EXCEPT !.socketConnected = FALSE,
                                      !.statusText = "Disconnected",
                                      !.statusClass = "status disconnected",
                                      !.outbox = <<>>,
                                      !.inFrontendRoom = FALSE]
    /\ UNCHANGED <<loaderVars, conversion, watchlistPage, customPlot>>

\* setInterval(() => { socket.emit('ping_server') }, 30000)
PingInterval ==
    /\ Len(sendBuffer) + Len(outbox) < MaxQueued
    /\ LET sent == Emit(socketConnected, sendBuffer, outbox, "ping_server")
       IN  dashboard' = [dashboard EXCEPT !.sendBuffer = sent.sendBuffer,
                                          !.outbox = sent.outbox]
    /\ UNCHANGED <<loaderVars, conversion, watchlistPage, customPlot>>

\* the server handles the oldest event on its way: join_frontend puts the session
\* into the room 'frontend', ping_server is answered with pong, which the page logs
ServerReceives ==
    /\ outbox # <<>>
    /\ dashboard' =
           [dashboard EXCEPT
               !.outbox = Tail(outbox),
               !.inFrontendRoom = (inFrontendRoom \/ Head(outbox) = "join_frontend")]
    /\ UNCHANGED <<loaderVars, conversion, watchlistPage, customPlot>>

\* the server sends trading_update to the room 'frontend':
\* socket.on('trading_update', ...) shows data.trades_count and data.market_data_count
OnTradingUpdate(trades_count, market_data_count) ==
    /\ socketConnected
    /\ inFrontendRoom
    /\ dashboard' = [dashboard EXCEPT !.totalTrades = trades_count,
                                      !.dataPoints = market_data_count]
    /\ UNCHANGED <<loaderVars, conversion, watchlistPage, customPlot>>

\* ----------------------------------------------------- addCustomPlot
\* indicators a caller's list holds
MaxIndicators == 2

IndicatorNames == {"sma", "ema"}
\* LineData[]: no point, or one
LineDataSets == {<<>>, <<[time |-> Today * SecondsPerDay, value |-> 2]>>}
\* CustomPlotOptions, told apart by their color; options?: it may be missing
PlotOptions == {Undefined, "#2962FF", "#ef5350"}

Indicators ==
    {[name |-> n, data |-> d, options |-> o] :
        n \in IndicatorNames, d \in LineDataSets, o \in PlotOptions}

\* findIndex: the first index whose element satisfies the test, -1 when none does
findIndex(list, name) ==
    IF \E i \in 1..Len(list) : list[i].name = name
    THEN CHOOSE i \in 1..Len(list) :
            /\ list[i].name = name
            /\ \A j \in 1..(i - 1) : list[j].name # name
    ELSE -1

\* addCustomPlot, as it would be if the options of the call replaced those at hand
\* also when the call gives none
addCustomPlotTakesOptions(list, name, data, options) ==
    LET existingIndex == findIndex(list, name)
    IN  IF existingIndex >= 1
        THEN [list EXCEPT ![existingIndex] =
                 [name |-> @.name, data |-> data, options |-> options]]
        ELSE Append(list, [name |-> name, data |-> data, options |-> options])

\* addCustomPlot: the array it returns (indices start at 1)
addCustomPlot(list, name, data, options) ==
    LET existingIndex == findIndex(list, name)
    IN  IF existingIndex >= 1
        THEN [list EXCEPT ![existingIndex] =
                 [name |-> @.name, data |-> data,
                  options |-> IF options # Undefined THEN options ELSE @.options]]
        ELSE Append(list, [name |-> name, data |-> data, options |-> options])

\* no call is being made
NoCustomPlot ==
    customPlot = [indicators |-> <<>>, newIndicators |-> <<>>, called |-> FALSE,
                  name |-> "", data |-> <<>>, options |-> Undefined]

\* a caller holds a list of indicators
InitCustomPlot ==
    \E list \in SeqsUpTo(Indicators, MaxIndicators) :
        customPlot = [indicators |-> list, newIndicators |-> <<>>, called |-> FALSE,
                      name |-> "", data |-> <<>>, options |-> Undefined]

\* one call addCustomPlot(indicators, name, data, options): newIndicators is a copy of
\* indicators, the changes are made to the copy, the copy is returned
CallAddCustomPlot(name, data, options) ==
    /\ customPlot' =
           [indicators |-> indicators,
            newIndicators |-> addCustomPlot(indicators, name, data, options),
            called |-> TRUE,
            name |-> name, data |-> data, options |-> options]
    /\ UNCHANGED <<loaderVars, conversion, watchlistPage, dashboard>>

\* ----------------------------------------------------- specification
\* the chart page before its first effect runs
InitLoader ==
    /\ mounted = FALSE
    /\ ticker = defaultTicker
    /\ timeframe = defaultTimeframe
    /\ loading = FALSE
    /\ state = [data |-> <<>>, initialData |-> <<>>, incrementalData |-> <<>>,
                currentTicker |-> Undefined,
                startDate |-> defaultStartDate, endDate |-> defaultEndDate]
    /\ error = NoError
    /\ isLoadingMore = FALSE
    /\ inflight = {}
    /\ nFetch = 0
    /\ series = <<>>
    /\ internalTicker = ""
    /\ internalDataCount = 0
    /\ updateError = NoError
    /\ loadingRef = FALSE
    /\ visualRangeLoading = FALSE
    /\ crashed = FALSE
    /\ outcome = "none"

Init ==
    /\ InitLoader
    /\ NoConversion
    /\ NoWatchlist
    /\ NoDashboard
    /\ NoCustomPlot

Next ==
    \/ Mount
    \/ \E tf \in Timeframes : SelectTimeframe(tf)
    \/ \E v \in TickerInputs : TickerInputBlur(v)
    \/ handleSearch
    \/ \E t \in Tickers : handleWatchlistTickerSelect(t)
    \/ \E from \in VisibleFrom : handleVisibleLogicalRangeChange(from, from + 50)
    \/ ResetLoadingTimeout
    \/ DismissUpdateError
    \/ \E r \in inflight : \E results \in Results(r) : \E asserts \in BOOLEAN :
          FetchSucceeds(r, results, asserts)
    \/ \E r \in inflight : FetchUpstreamError(r)
    \/ \E r \in inflight : FetchNetworkError(r)

Spec == Init /\ [][Next]_vars

\* ------------------------------------------------------ transitions
\* the fetches a step answers, and the fetches a step issues
Settled == inflight \ inflight'
Issued == inflight' \ inflight
Failures == {"networkError", "upstreamError"}

\* the bars of inc whose time is not yet in the series
NewBars(inc, existing) ==
    SelectSeq(inc, LAMBDA b : \A i \in 1..Len(existing) : existing[i].time # b.time)

\* the incremental-data effect passes its guard and merges
Merges(st) ==
    /\ ~crashed
    /\ st.incrementalData # <<>>
    /\ CurrentTickerProp(st) = internalTicker

\* ------------------------------------------------------------ claims

\* C1: after any sequence of successful initial loads and load-more merges the
\* displayed series is strictly increasing in time, with no two bars of the same time.
C1_SeriesStrictlyIncreasing == StrictlyAscending(Times(series))

\* C2: the answer to a load-more that was issued for the ticker then on display, and
\* that brings bars after the initial load of another ticker has completed and that
\* ticker's series is on display, is dropped: it changes neither the series nor the
\* earliest-date marker.
C2_StaleLoadMoreDiscarded ==
    [][\A r \in Settled :
          (/\ outcome' = "ok"
           /\ r.type = ADD_INCREMENTAL_DATA
           /\ r.shown = r.ticker
           /\ state.currentTicker # r.ticker
           /\ ticker # r.ticker
           /\ internalTicker = state.currentTicker
           /\ state'.incrementalData # <<>>)
          => (series' = series /\ state'.startDate = state.startDate)]_vars

\* C3: at most one fetch is outstanding at any time.
C3_AtMostOneFetch == Cardinality(inflight) <= 1

\* C4: while a load-more fetch is outstanding no second load-more fetch is started.
C4_AtMostOneLoadMore ==
    Cardinality({r \in inflight : r.type = ADD_INCREMENTAL_DATA}) <= 1

\* C5: a load-more merge leaves the series equal to the fetched bars whose time is
\* new, followed by the bars the series held.
C5_MergeDropsKnownTimes ==
    [][\A r \in Settled :
          (outcome' = "ok" /\ r.type = ADD_INCREMENTAL_DATA /\ Merges(state'))
          => series' = NewBars(state'.incrementalData, series) \o series]_vars

\* C6: a fetch that fails, by a network failure or by an error payload, leaves
\* isLoadingMore and loading false and leaves the reducer state (initialData,
\* incrementalData, currentTicker, startDate), the series and its count as they were.
C6_FailedFetchChangesNothing ==
    [][\A r \in Settled :
          outcome' \in Failures
          => (/\ isLoadingMore' = FALSE
              /\ loading' = FALSE
              /\ state' = state
              /\ series' = series
              /\ internalTicker' = internalTicker
              /\ internalDataCount' = internalDataCount)]_vars

\* C6 witness: a fetch has failed while the chart shows bars and a load-more batch
\* had been merged (there was something to keep).
C6_Witness ==
    /\ outcome \in Failures
    /\ series # <<>>
    /\ state.incrementalData # <<>>
    /\ internalDataCount > Len(state.initialData)

\* C7: after every failed fetch the error state of App is non-null.
C7_FailureSurfacesError == outcome \in Failures => error # NoError

\* C8: a load-more for [S, E] that succeeds with zero bars sets the marker to S and
\* leaves the series and its count alone, and every load-more is issued for a range
\* that ends the day before the marker.
C8_EmptyLoadMoreAdvancesMarker ==
    [][/\ \A r \in Settled :
             (/\ outcome' = "ok"
              /\ r.type = ADD_INCREMENTAL_DATA
              /\ state'.incrementalData = <<>>)
             => (/\ state'.startDate = r.startDate
                 /\ series' = series
                 /\ internalDataCount' = internalDataCount)
       /\ \A r \in Issued :
             r.type = ADD_INCREMENTAL_DATA => r.endDate = state.startDate - 1]_vars

\* C8 witness: after a load-more that came back empty (the marker is below the default
\* start and no incremental bars are held) the next load-more is on its way, for the
\* range that ends the day before the marker.
C8_Witness ==
    /\ outcome = "ok"
    /\ series # <<>>
    /\ state.incrementalData = <<>>
    /\ state.startDate < defaultStartDate
    /\ \E r \in inflight :
          /\ r.type = ADD_INCREMENTAL_DATA
          /\ r.endDate = state.startDate - 1

\* C9: all bars of the displayed series were fetched for one (ticker, timeframe) pair.
C9_OnePairPerSeries ==
    \A i, j \in 1..Len(series) :
        series[i].tk = series[j].tk /\ series[i].tf = series[j].tf

\* C10: a successful initial load that brings bars of a ticker or timeframe other
\* than that of every bar on display leaves the series equal to the fetched bars.
C10_InitialLoadReplaces ==
    [][\A r \in Settled :
          (/\ outcome' = "ok"
           /\ r.type = SET_INITIAL_DATA
           /\ ~crashed'
           /\ series # <<>>
           /\ state'.initialData # <<>>
           /\ \A i \in 1..Len(series) :
                 <<series[i].tk, series[i].tf>> # <<r.ticker, r.timeframe>>)
          => series' = state'.initialData]_vars

\* C11: the earliest-date marker is the first day of the earliest range merged into
\* the series, so no displayed bar is of a day before the marker.
C11_MarkerAtEarliestRange ==
    \A i \in 1..Len(series) : series[i].time \div SecondsPerDay >= state.startDate

\* C12: a load-more issued at marker S asks for [S - 100, S - 1] with the active ticker
\* and timeframe, its success sets the marker to the start of its range, and the range
\* of a load-more that succeeds ends the day before the marker left by the load before
\* it (successive ranges are adjacent and do not overlap).
C12_LoadMoreRangesAdjacent ==
    [][/\ \A r \in Issued :
             r.type = ADD_INCREMENTAL_DATA
             => (/\ r.startDate = state.startDate - BAR_LOOKBACK
                 /\ r.endDate = state.startDate - 1
                 /\ r.ticker = ticker
                 /\ r.timeframe = timeframe)
       /\ \A r \in Settled :
             (outcome' = "ok" /\ r.type = ADD_INCREMENTAL_DATA)
             => (/\ state'.startDate = r.startDate
                 /\ r.endDate = state.startDate - 1)]_vars

\* C13: while a load-more fetch is outstanding the load state is not Idle:
\* isLoadingMore or the chart's loading guard is set.
C13_NotIdleWhileLoadingMore ==
    (\E r \in inflight : r.type = ADD_INCREMENTAL_DATA) => (isLoadingMore \/ loadingRef)

\* a step of one of the events that may start a fetch: the mount effect, Search, a
\* watchlist selection, a visible-range change
TriggeringEvent ==
    \/ Mount
    \/ handleSearch
    \/ \E t \in Tickers : handleWatchlistTickerSelect(t)
    \/ \E from \in VisibleFrom : handleVisibleLogicalRangeChange(from, from + 50)

\* C16: fetches are issued only by the mount effect and by user events, one per event:
\* a step issues at most one fetch, a step that issues one is a triggering event and
\* answers none, and the step that fails a fetch issues none.
C16_NoAutomaticRetry ==
    [][/\ Cardinality(Issued) <= 1
       /\ Issued # {} => (Settled = {} /\ TriggeringEvent)
       /\ (Settled # {} /\ outcome' \in Failures) => inflight' = inflight \ Settled]_vars

\* C16 witness: the one fetch outstanding has failed and none has taken its place.
C16_Witness ==
    /\ outcome \in Failures
    /\ nFetch >= 1
    /\ inflight = {}

\* s is the tail of t
IsSuffix(s, t) ==
    /\ Len(s) <= Len(t)
    /\ SubSeq(t, Len(t) - Len(s) + 1, Len(t)) = s

\* C17: internalDataCount is the length of the series; while internalTicker stays the
\* same every step leaves the bars on display as the tail of the series; a successful
\* load-more puts its batch before them, or leaves the series as it was when the
\* incremental-data effect does not merge (its guard fails, or setData rejects a merged
\* array that is not ascending).
C17_SeriesOnlyGrows ==
    /\ [](internalDataCount = Len(series))
    /\ [][/\ internalTicker' = internalTicker => IsSuffix(series, series')
          /\ \A r \in Settled :
                (outcome' = "ok" /\ r.type = ADD_INCREMENTAL_DATA)
                => \/ series' = state'.incrementalData \o series
                   \/ /\ series' = series
                      /\ \/ ~Merges(state')
                         \/ ~StrictlyAscending(Times(state'.incrementalData \o series))]_vars

\* C17 witness: two load-more batches have been merged before the initial bars.
C17_Witness ==
    /\ outcome = "ok"
    /\ state.initialData # <<>>
    /\ internalDataCount > Len(state.initialData) + Len(state.incrementalData)
    /\ state.incrementalData # <<>>
    /\ IsSuffix(state.initialData, series)

\* C21: a successful initial load leaves incrementalData empty, and the commit that
\* follows it prepends nothing: the series is left as it was or becomes the bars of
\* the initial load, and when the chart changes its ticker every bar on display is of
\* the ticker loaded.
C21_InitialLoadResetsIncremental ==
    [][\A r \in Settled :
          (outcome' = "ok" /\ r.type = SET_INITIAL_DATA)
          => (/\ state'.incrementalData = <<>>
              /\ series' = series \/ series' = state'.initialData
              /\ internalTicker' # internalTicker
                 => (/\ series' = state'.initialData
                     /\ \A i \in 1..Len(series') : series'[i].tk = r.ticker))]_vars

\* C21 witness: a load-more batch had been merged into the series on display (it holds
\* more bars than one answer brings) when the initial load of another ticker was
\* dispatched; incrementalData is empty and the bars on display are as they were.
C21_Witness ==
    /\ outcome = "ok"
    /\ \A results \in Results(NoReq) : Len(series) > Len(results)
    /\ state.currentTicker # Undefined
    /\ state.currentTicker # internalTicker
    /\ state.incrementalData = <<>>

SpecTimersFire == Spec /\ WF_vars(ResetLoadingTimeout)

\* C23: loadingRef and visualRangeLoading are set and released together; whenever
\* they are set they are false again later, with no step of any fetch needed; and
\* whenever loadingRef is false, bars are on display and fetches are left to issue, a
\* visible-range change near the left edge can trigger load-more.
C23_GuardEventuallyReleased ==
    /\ [](visualRangeLoading = loadingRef)
    /\ loadingRef ~> ~loadingRef
    /\ visualRangeLoading ~> ~visualRangeLoading
    /\ []((~loadingRef /\ mounted /\ series # <<>> /\ nFetch < MaxFetches)
           => ENABLED (\E from \in VisibleFrom :
                          handleVisibleLogicalRangeChange(from, from + 50)))

\* C23 witness: the guard has been released while the load-more of its trigger was
\* still unanswered, and a second trigger has started a second load-more, unanswered
\* too, whose guard has been released as well.
C23_Witness ==
    /\ ~loadingRef
    /\ ~visualRangeLoading
    /\ Cardinality({r \in inflight : r.type = ADD_INCREMENTAL_DATA}) = 2

\* ------------------------------------- a data source of any order
\* the answers of Results, and the two bars newest first: fetchData maps
\* parsedData.results in the order the backend sent them
ResultsAnyOrder(r) ==
    Results(r) \cup {<<Item(r, r.endDate), Item(r, r.startDate)>>}

NextAnyOrder ==
    \/ Mount
    \/ \E tf \in Timeframes : SelectTimeframe(tf)
    \/ \E v \in TickerInputs : TickerInputBlur(v)
    \/ handleSearch
    \/ \E t \in Tickers : handleWatchlistTickerSelect(t)
    \/ \E from \in VisibleFrom : handleVisibleLogicalRangeChange(from, from + 50)
    \/ ResetLoadingTimeout
    \/ DismissUpdateError
    \/ \E r \in inflight : \E results \in ResultsAnyOrder(r) : \E asserts \in BOOLEAN :
          FetchSucceeds(r, results, asserts)
    \/ \E r \in inflight : FetchUpstreamError(r)
    \/ \E r \in inflight : FetchNetworkError(r)

SpecAnyOrder == Init /\ [][NextAnyOrder]_vars

\* bars in ascending order of time (bars of equal time keep their order)
RECURSIVE SortByTime(_)
SortByTime(bars) ==
    IF bars = <<>> THEN <<>>
    ELSE LET rest == SortByTime(Tail(bars))
             b == Head(bars)
             before == SelectSeq(rest, LAMBDA x : x.time < b.time)
             after == SelectSeq(rest, LAMBDA x : x.time >= b.time)
         IN  before \o <<b>> \o after

\* C14: a successful initial load that brings bars to an empty chart leaves the
\* series equal to the fetched bars in ascending order of time.
C14_InitialLoadSorted ==
    [][\A r \in Settled :
          (/\ outcome' = "ok"
           /\ r.type = SET_INITIAL_DATA
           /\ series = <<>>
           /\ state'.initialData # <<>>)
          => (~crashed' /\ series' = SortByTime(state'.initialData))]_vars

\* --------------------------------------- the formatting on its own
InitFormat ==
    /\ InitLoader
    /\ InitConversion
    /\ NoWatchlist
    /\ NoDashboard
    /\ NoCustomPlot

NextFormat == FormatResults

SpecFormat == InitFormat /\ [][NextFormat]_vars

\* C15: every bar made of a response has time = floor(t / 1000) (t is not below
\* 1000 * time and less than a second above it), and open, high, low, close, volume
\* equal to o, h, l, c, v of its item; there is one bar per item, in the same order.
C15_TimeIsFloorOfSeconds ==
    formattedData # <<>> =>
        /\ Len(formattedData) = Len(parsedResults)
        /\ \A i \in 1..Len(formattedData) :
              LET item == parsedResults[i]
                  bar == formattedData[i]
                  \* t - 1000 * time, with t = day * MsPerDay + ms
                  rest == item.ms - (bar.time - item.day * SecondsPerDay) * 1000
              IN  /\ 0 <= rest /\ rest < 1000
                  /\ bar.open = item.o /\ bar.high = item.h /\ bar.low = item.l
                  /\ bar.close = item.c /\ bar.volume = item.v

\* C15 witness: a bar has been made of an item of today whose t is off the second.
C15_Witness ==
    /\ formattedData # <<>>
    /\ \E i \in 1..Len(parsedResults) :
          parsedResults[i].day = Today /\ parsedResults[i].ms % 1000 # 0

\* ----------------------------------------- the watchlist on its own
InitWatchlistPage ==
    /\ InitLoader
    /\ NoConversion
    /\ InitWatchlist
    /\ NoDashboard
    /\ NoCustomPlot

NextWatchlist ==
    \/ \E strictMode \in BOOLEAN : WatchlistMount(strictMode)
    \/ Refresh
    \/ ShowAddForm
    \/ \E value \in TypedTickers : ChangeNewTicker(value)
    \/ CancelAdd
    \/ handleAddTicker
    \/ \E k \in 1..Len(watchlist) : handleRemoveTicker(watchlist[k])
    \/ \E confirmed \in BOOLEAN : handleClearWatchlist(confirmed)

SpecWatchlist == InitWatchlistPage /\ [][NextWatchlist]_vars

NoDuplicates(list) == \A i, j \in 1..Len(list) : list[i] = list[j] => i = j

\* list without its k-th entry
WithoutEntry(list, k) == SubSeq(list, 1, k - 1) \o SubSeq(list, k + 1, Len(list))

\* C18: the watchlist never holds a ticker twice; an add of an empty or present ticker
\* changes neither the list nor the add form, any other add appends the trimmed
\* upper-cased input; the list grows by adds only, at its end; a remove takes out the
\* named entry and keeps the order of the others.
C18_WatchlistIsOrderedSet ==
    /\ [](NoDuplicates(watchlist))
    /\ [][/\ handleAddTicker
             => LET input == toUpperCase(trim(newTicker))
                IN  IF input = <<>> \/ includes(watchlist, input)
                    THEN UNCHANGED <<watchlist, newTicker, isAddingTicker>>
                    ELSE watchlist' = Append(watchlist, input)
          /\ (isLoaded /\ Len(watchlist') > Len(watchlist))
             => (/\ handleAddTicker
                 /\ Len(watchlist') = Len(watchlist) + 1
                 /\ SubSeq(watchlist', 1, Len(watchlist)) = watchlist)
          /\ \A k \in 1..Len(watchlist) :
                handleRemoveTicker(watchlist[k])
                => watchlist' = WithoutEntry(watchlist, k)]_vars

\* C18 witness: a third ticker has been added to the two that were stored, and the
\* add form holds a ticker that is on the list.
C18_Witness ==
    /\ Len(watchlist) = 3
    /\ isAddingTicker
    /\ includes(watchlist, toUpperCase(trim(newTicker)))

\* C19: once the component has loaded, the value under the key is a JSON array that
\* parses to the watchlist; a refresh leaves the value alone, and the mount that
\* follows sets the watchlist to the array the value parses to.
C19_StorageRoundTrips ==
    /\ [](isLoaded =>
            /\ localStorage.present
            /\ ~JSONparse(localStorage.text).throws
            /\ JSONparse(localStorage.text).isArray
            /\ JSONparse(localStorage.text).value = watchlist)
    /\ [][/\ (isLoaded /\ ~isLoaded') => localStorage' = localStorage
          /\ (~isLoaded /\ isLoaded' /\ JSONparse(localStorage.text).isArray)
             => watchlist' = JSONparse(localStorage.text).value]_vars

\* C19 witness: the page has been refreshed with a saved list of three tickers (one
\* more than any list found at the first opening).
C19_Witness ==
    /\ ~isLoaded
    /\ localStorage.present
    /\ JSONparse(localStorage.text).isArray
    /\ Len(JSONparse(localStorage.text).value) = 3

\* the value under the key is a JSON array, which the load effect hands to setWatchlist
Readable(stored) == stored.present /\ JSONparse(stored.text).isArray

\* C25: no step writes the key while the component has not loaded (a refresh keeps
\* it); the load effect reads the value the page was opened with; the write of the
\* mount stores the watchlist as the mount left it, which is the array that was read
\* whenever the value read is a JSON array.
C25_StoredListSurvivesMount ==
    [][/\ ~isLoaded' => localStorage' = localStorage
       /\ (~isLoaded /\ isLoaded')
          => (/\ readOnMount' = localStorage
              /\ localStorage' = StoredItem(JSONstringify(watchlist'))
              /\ Readable(localStorage)
                 => (/\ watchlist' = JSONparse(localStorage.text).value
                     /\ Readable(localStorage')
                     /\ JSONparse(localStorage'.text).value
                            = JSONparse(localStorage.text).value))]_vars

\* C25 witness: the page was opened with a list of tickers under the key; the
\* component has loaded, and the key and the watchlist hold that list.
C25_Witness ==
    /\ isLoaded
    /\ Readable(readOnMount)
    /\ JSONparse(readOnMount.text).value # <<>>
    /\ watchlist = JSONparse(readOnMount.text).value
    /\ localStorage = readOnMount

\* C26: a mount that finds no value, text that is not JSON, or a JSON value that is
\* not an array sets isLoaded, leaves the watchlist empty and writes the empty array;
\* an add that changes the watchlist writes the new list under the key.
C26_UnreadableStoreNotFatal ==
    [][/\ (~isLoaded /\ ~Readable(localStorage))
          => (/\ isLoaded'
              /\ watchlist' = <<>>
              /\ localStorage' = StoredItem(JSONstringify(<<>>)))
       /\ (handleAddTicker /\ watchlist' # watchlist)
          => (/\ isLoaded'
              /\ localStorage' = StoredItem(JSONstringify(watchlist'))
              /\ JSONparse(localStorage'.text).value = watchlist')]_vars

\* C26 witness: the page was opened with text under the key that is not JSON; the
\* component has loaded, a ticker has been added and is under the key.
C26_Witness ==
    /\ isLoaded
    /\ readOnMount.present
    /\ JSONparse(readOnMount.text).throws
    /\ watchlist # <<>>
    /\ Readable(localStorage)
    /\ JSONparse(localStorage.text).value = watchlist

\* ----------------------------------------- the dashboard on its own
InitDashboardPage ==
    /\ InitLoader
    /\ NoConversion
    /\ NoWatchlist
    /\ InitDashboard
    /\ NoCustomPlot

NextDashboard ==
    \/ OnConnect
    \/ OnDisconnect
    \/ PingInterval
    \/ ServerReceives
    \/ \E trades_count \in TradesCounts : \E market_data_count \in MarketDataCounts :
          OnTradingUpdate(trades_count, market_data_count)

SpecDashboard == InitDashboardPage /\ [][NextDashboard]_vars

\* C20: #status reads 'Connected' while the socket is connected and 'Disconnected'
\* while it is not; every connect sends join_frontend as the last event of that step,
\* so a connected client is in the room 'frontend' or its join_frontend is on its way,
\* and a trading_update reaches the page only while it is in the room.
C20_StatusFollowsSocket ==
    /\ [](/\ socketConnected => statusText = "Connected"
          /\ ~socketConnected => statusText = "Disconnected"
          /\ socketConnected => (inFrontendRoom \/ includes(outbox, "join_frontend")))
    /\ [][/\ (~socketConnected /\ socketConnected')
             => (outbox' # <<>> /\ outbox'[Len(outbox')] = "join_frontend")
          /\ <<totalTrades, dataPoints>>' # <<totalTrades, dataPoints>>
             => inFrontendRoom]_vars

\* C20 witness: after a trading_update was shown the connection was lost and made
\* again, and the join_frontend of the reconnect is on its way.
C20_Witness ==
    /\ totalTrades # 0
    /\ socketConnected
    /\ statusText = "Connected"
    /\ ~inFrontendRoom
    /\ includes(outbox, "join_frontend")

\* ------------------------------------------- the reducer on its own
\* a type the reducer has no case for
OtherType == "UNKNOWN_ACTION"

\* payload.data: the bars of one answer
PayloadData ==
    {FormattedData(results) :
        results \in Results([NoReq EXCEPT !.ticker = defaultTicker,
                                          !.timeframe = defaultTimeframe,
                                          !.startDate = defaultStartDate,
                                          !.endDate = defaultEndDate])}

\* payload.ticker, payload.startDate, payload.endDate: each may be missing
PayloadTickers == Tickers \cup {""}
PayloadStartDates == {NoReq.startDate, defaultStartDate - BAR_LOOKBACK}
PayloadEndDates == {NoReq.endDate, defaultStartDate - 1}

DispatchedActions ==
    {Action(type, data, tk, startDate, endDate) :
        type \in {SET_INITIAL_DATA, ADD_INCREMENTAL_DATA, OtherType},
        data \in PayloadData, tk \in PayloadTickers,
        startDate \in PayloadStartDates, endDate \in PayloadEndDates}

\* dispatch(action): useReducer sets the state to reducer(state, action)
Dispatch(action) ==
    /\ state' = reducer(state, action)
    /\ UNCHANGED <<mounted, ticker, timeframe, loading, error, isLoadingMore, inflight,
                   nFetch, chartVars, crashed, guardVars, outcome>>
    /\ UNCHANGED besideLoader

NextReducer == \E action \in DispatchedActions : Dispatch(action)

SpecReducer == Init /\ [][NextReducer]_vars

\* C22: in every state, ADD_INCREMENTAL_DATA yields a state with the same fields and
\* the same initialData, currentTicker, endDate and data (it sets incrementalData to
\* the payload's data and may set startDate), and an action of a type other than
\* SET_INITIAL_DATA and ADD_INCREMENTAL_DATA yields the state it was given.
C22_AddIncrementalFrame ==
    \A action \in DispatchedActions :
        LET st == reducer(state, action)
        IN  /\ action.type = ADD_INCREMENTAL_DATA
               => (/\ DOMAIN st = DOMAIN state
                   /\ st.initialData = state.initialData
                   /\ st.currentTicker = state.currentTicker
                   /\ st.endDate = state.endDate
                   /\ st.data = state.data
                   /\ st.incrementalData = action.payload.data)
            /\ action.type \notin {SET_INITIAL_DATA, ADD_INCREMENTAL_DATA}
               => st = state

\* C22 witness: ADD_INCREMENTAL_DATA has acted on a state that held initial bars, a
\* ticker and an end date other than the default, and has moved the start date.
C22_Witness ==
    /\ state.incrementalData # <<>>
    /\ state.initialData # <<>>
    /\ state.currentTicker \in Tickers
    /\ state.endDate # defaultEndDate
    /\ state.startDate # defaultStartDate

\* ------------------------------------------ addCustomPlot on its own
InitCustomPlotCall ==
    /\ InitLoader
    /\ NoConversion
    /\ NoWatchlist
    /\ NoDashboard
    /\ InitCustomPlot

NextCustomPlot ==
    \E name \in IndicatorNames : \E data \in LineDataSets : \E options \in PlotOptions :
        CallAddCustomPlot(name, data, options)

SpecCustomPlot == InitCustomPlotCall /\ [][NextCustomPlot]_vars

NamesOf(list) == [i \in 1..Len(list) |-> list[i].name]

\* C27: a call leaves the caller's list as it was.  When the list holds the name, the
\* result has the length of the list, differs from it at the first entry of that name
\* only, and that entry has its name, the data of the call, and the options of the
\* call when given and its own otherwise; when the list does not hold the name, the
\* result is the list with the entry of the call at its end.  The names of the result
\* are unique when those of the list are, and the same call on the result returns
\* the result.
C27_AddCustomPlotUpserts ==
    /\ [][customPlot'.indicators = customPlot.indicators]_vars
    /\ [](called =>
            LET name == customPlot.name
                data == customPlot.data
                options == customPlot.options
                holds == {i \in 1..Len(indicators) : indicators[i].name = name}
            IN  /\ holds # {}
                   => (/\ Len(newIndicators) = Len(indicators)
                       /\ \A i \in 1..Len(indicators) :
                             IF i \in holds /\ \A j \in holds : i <= j
                             THEN /\ newIndicators[i].name = name
                                  /\ newIndicators[i].data = data
                                  /\ newIndicators[i].options =
                                        IF options # Undefined THEN options
                                        ELSE indicators[i].options
                             ELSE newIndicators[i] = indicators[i])
                /\ holds = {}
                   => newIndicators =
                         indicators \o <<[name |-> name, data |-> data,
                                          options |-> options]>>
                /\ NoDuplicates(NamesOf(indicators)) => NoDuplicates(NamesOf(newIndicators))
                /\ addCustomPlot(newIndicators, name, data, options) = newIndicators)

\* C27 witness: a call without options has replaced the data of the second of two
\* indicators, which has kept its options.
C27_Witness ==
    /\ called
    /\ Len(indicators) = 2
    /\ customPlot.options = Undefined
    /\ indicators[2].name = customPlot.name
    /\ indicators[1].name # customPlot.name
    /\ indicators[2].options # Undefined
    /\ newIndicators[2].options = indicators[2].options
    /\ newIndicators[2].data # indicators[2].data
    /\ newIndicators[1] = indicators[1]

====
